---- MODULE Spec2Model ----
(***************************************************************************)
(* licensevalidator: the admission service built by app.NewApp.            *)
(*                                                                         *)
(* NewApp (cmd/licensevalidator/app/app.go) parses the configuration and   *)
(* wires  observ.Middleware -> athens.AdmissionHandler -> NotifyingValidator*)
(* -> RuleSetValidator -> (translator, cache -> ChainedLicenseResolver ->   *)
(* github client, goproxy client).  The packages validation, cache, athens, *)
(* override, golang, gopkg and spdx are used here only through NewApp's     *)
(* calls; their behaviour is the one the design specification gives them.   *)
(***************************************************************************)
EXTENDS Integers, Sequences, FiniteSets, TLC

VARIABLES cfg, env, req, app, pc, remoteAddr, tpath, memo, invoked, best,
          resolved, resp

vars == <<cfg, env, req, app, pc, remoteAddr, tpath, memo, invoked, best,
          resolved, resp>>

\* Number of admission requests the server handles concurrently.
NReq == 2
Reqs == 1..NReq

Range(s) == {s[i] : i \in 1..Len(s)}

----------------------------------------------------------------------------
(* Strings and the library conversions applied to them.                    *)

Paths == {"rsc.io/pdf", "gitlab.mycorp.com/lib", "github.com/user/repo",
          "go.uber.org/zap", "github.com/uber-go/zap", "example.com/pkg"}

\* regexp.Compile: the patterns that do not compile.
InvalidRegexps == {"(", "[a-"}

regexpCompile(p) ==
    IF p \in InvalidRegexps
    THEN [err |-> "error parsing regexp", re |-> ""]
    ELSE [err |-> "", re |-> p]

\* (*regexp.Regexp).MatchString: the paths each compiled pattern matches
\* (unanchored unless the pattern anchors itself).
Language(re) ==
    CASE re = "rsc.io/pdf"            -> {"rsc.io/pdf"}
      [] re = "^gitlab.mycorp.com/.*" -> {"gitlab.mycorp.com/lib"}
      [] re = "github.com/user/repo"  -> {"github.com/user/repo"}
      [] re = "^go.uber.org/(.*)$"    -> {"go.uber.org/zap"}
      [] re = "^github.com/"          -> {"github.com/user/repo", "github.com/uber-go/zap"}
      [] re = ".*"                    -> Paths
      [] OTHER                        -> {}

MatchString(re, s) == s \in Language(re)

\* (*regexp.Regexp).ReplaceAllString for the override of the test configuration.
ReplaceAllString(re, s, repl) ==
    IF ~MatchString(re, s) THEN s
    ELSE IF re = "^go.uber.org/(.*)$" /\ repl = "github.com/uber-go/$1" /\ s = "go.uber.org/zap"
         THEN "github.com/uber-go/zap"
         ELSE s

\* Module versions as the proxy sends them, and their semver reading.
Versions == {"v0.9.0", "v1.0.0", "v1.2.0"}

semverParse(v) ==
    CASE v = "v0.9.0" -> <<0, 9, 0>>
      [] v = "v1.0.0" -> <<1, 0, 0>>
      [] v = "v1.2.0" -> <<1, 2, 0>>

VersionLess(a, b) ==
    \/ a[1] < b[1]
    \/ a[1] = b[1] /\ a[2] < b[2]
    \/ a[1] = b[1] /\ a[2] = b[2] /\ a[3] < b[3]

NoConstraint == [op |-> "", ver |-> <<0, 0, 0>>]

\* semver.NewConstraint: the constraint strings that parse.
semverNewConstraint(s) ==
    CASE s = "<1.0.0"  -> [err |-> "", c |-> [op |-> "<",  ver |-> <<1, 0, 0>>]]
      [] s = ">=1.0.0" -> [err |-> "", c |-> [op |-> ">=", ver |-> <<1, 0, 0>>]]
      [] OTHER         -> [err |-> "improper constraint", c |-> NoConstraint]

\* (*semver.Constraints).Check
ConstraintCheck(c, v) ==
    CASE c.op = "<"  -> VersionLess(semverParse(v), c.ver)
      [] c.op = ">=" -> ~VersionLess(semverParse(v), c.ver)
      [] OTHER       -> FALSE

\* spdx.LicenseByID: the identifiers of the license list and their names.
SPDXNames ==
    [id \in {"MIT", "AGPL-3.0", "Apache-2.0"} |->
        CASE id = "MIT"        -> "MIT License"
          [] id = "AGPL-3.0"   -> "GNU Affero General Public License v3.0"
          [] id = "Apache-2.0" -> "Apache License 2.0"]

LicenseByID(id) ==
    IF id \in DOMAIN SPDXNames
    THEN [ok |-> TRUE, Name |-> SPDXNames[id]]
    ELSE [ok |-> FALSE, Name |-> ""]

\* url.Parse: Hostname() and Host of the base URLs.
urlParse(u) ==
    CASE u = "https://proxy.golang.org" ->
            [err |-> "", Hostname |-> "proxy.golang.org", Host |-> "proxy.golang.org"]
      [] u = "http://athens:3000" ->
            [err |-> "", Hostname |-> "athens", Host |-> "athens:3000"]
      [] u = "https://nohost.invalid" ->
            [err |-> "", Hostname |-> "nohost.invalid", Host |-> "nohost.invalid"]
      [] OTHER ->
            [err |-> "missing protocol scheme", Hostname |-> "", Host |-> ""]

\* (*net.Resolver).LookupIPAddr at startup.
LookupIPAddr(host) ==
    CASE host = "proxy.golang.org" -> [err |-> "", ips |-> <<"142.250.1.141", "2607:f8b0::2011">>]
      [] host = "athens"           -> [err |-> "", ips |-> <<"10.0.0.5">>]
      [] OTHER                     -> [err |-> "no such host", ips |-> <<>>]

----------------------------------------------------------------------------
(* Configuration (Config as NewApp reads it).                              *)

CacheNil == "<nil>"
CacheTypeMemory == "memory"

UnknownLicenseAllow == "allow"
UnknownLicenseWarn == "warn"
UnknownLicenseDeny == "deny"

MkConfig(cache, baseURL, overrides, threshold, action, wl, bl, al, dl) ==
    [Cache |-> cache,
     GoProxy |-> [BaseURL |-> baseURL],
     PathOverrides |-> overrides,
     Validation |->
        [ConfidenceThreshold |-> threshold,
         UnknownLicenseAction |-> action,
         RuleSet |-> [WhitelistedModules |-> wl, BlacklistedModules |-> bl,
                      AllowedLicenses |-> al, DeniedLicenses |-> dl]]]

MM(name, constraint) == [Name |-> name, VersionConstraint |-> constraint]
Lic(name, id) == [Name |-> name, SPDXID |-> id]

\* athens_integration/testdata/licensevalidator_cfg.toml; confidences are
\* counted in tenths, so 0.8 is 8.
TestdataThreshold == 8
TestdataOverrides == <<[Match |-> "^go.uber.org/(.*)$", Replace |-> "github.com/uber-go/$1"]>>
TestdataWhitelist == <<MM("^gitlab.mycorp.com/.*", ""), MM("github.com/user/repo", ">=1.0.0")>>
TestdataBlacklist == <<MM("rsc.io/pdf", "<1.0.0")>>
TestdataDenied == <<Lic("", "AGPL-3.0")>>

TestdataConfig ==
    MkConfig(CacheTypeMemory, "https://proxy.golang.org", TestdataOverrides,
             TestdataThreshold, UnknownLicenseAllow,
             TestdataWhitelist, TestdataBlacklist, <<>>, TestdataDenied)

----------------------------------------------------------------------------
(* app.go: the set-up functions.  Each returns the Go pair (value, err);   *)
(* err = "" is nil.                                                        *)

\* translator(): compiles every PathOverrides[i].Match.
RECURSIVE translatorFrom(_, _, _)
translatorFrom(items, i, overrides) ==
    IF i > Len(items) THEN [err |-> "", overrides |-> overrides]
    ELSE LET m == regexpCompile(items[i].Match) IN
         IF m.err # "" THEN [err |-> "invalid match", overrides |-> <<>>]
         ELSE translatorFrom(items, i + 1,
                 Append(overrides, [Match |-> m.re, Replace |-> items[i].Replace]))

translatorWithoutOverrides(c) ==
    [translatorFrom(c.PathOverrides, 1, <<>>) EXCEPT !.overrides = <<>>]

translator(c) == translatorFrom(c.PathOverrides, 1, <<>>)

setupCacheBypassed(c) == [err |-> "", memory |-> FALSE]

\* setupCache(): nil -> the Direct cacher, "memory" -> MemoryCache, else error.
setupCache(c) ==
    IF c.Cache = CacheNil THEN [err |-> "", memory |-> FALSE]
    ELSE IF c.Cache = CacheTypeMemory THEN [err |-> "", memory |-> TRUE]
    ELSE [err |-> "invalid cache type", memory |-> FALSE]

githubClientNoThreshold(c) == [name |-> "github", threshold |-> 0]

\* githubClient(): FallbackConfidenceThreshold is the configured threshold.
githubClient(c) ==
    [name |-> "github", threshold |-> c.Validation.ConfidenceThreshold]

\* goproxyClient(): defaults the base URL in the shared Config, and takes the
\* configured threshold.
goproxyBaseURL(c) ==
    IF c.GoProxy.BaseURL = "" THEN "https://proxy.golang.org" ELSE c.GoProxy.BaseURL

goproxyClient(c) ==
    [name |-> "goproxy", threshold |-> c.Validation.ConfidenceThreshold]

LicenseResolversSwapped(c) == <<goproxyClient(c), githubClient(c)>>

\* NewApp lines 52-57: the chain's resolvers, in order.
LicenseResolvers(c) == <<githubClient(c), goproxyClient(c)>>

goproxyAddrsIPsOnly(c) ==
    LET u == urlParse(c.GoProxy.BaseURL) IN
    IF u.err # "" THEN [err |-> "goproxy url parse failed", addrs |-> <<>>]
    ELSE LET l == LookupIPAddr(u.Hostname) IN
         IF l.err # "" THEN [err |-> "goproxy addresses lookup failed", addrs |-> <<>>]
         ELSE [err |-> "", addrs |-> l.ips]

\* goproxyAddrs(): the looked-up IPs, then the URL's hostname and host.
goproxyAddrs(c) ==
    LET u == urlParse(c.GoProxy.BaseURL) IN
    IF u.err # "" THEN [err |-> "goproxy url parse failed", addrs |-> <<>>]
    ELSE LET l == LookupIPAddr(u.Hostname) IN
         IF l.err # "" THEN [err |-> "goproxy addresses lookup failed", addrs |-> <<>>]
         ELSE [err |-> "", addrs |-> l.ips \o <<u.Hostname, u.Host>>]

\* parseModuleMatchers()
RECURSIVE parseModuleMatchersFrom(_, _, _)
parseModuleMatchersFrom(ms, i, ret) ==
    IF i > Len(ms) THEN [err |-> "", val |-> ret]
    ELSE LET item == ms[i] IN
         IF item.Name = ""
         THEN [err |-> "module name matcher can't have empty name", val |-> <<>>]
         ELSE LET name == regexpCompile(item.Name) IN
              IF name.err # ""
              THEN [err |-> "invalid module name matcher regexp", val |-> <<>>]
              ELSE LET constraint ==
                           IF item.VersionConstraint # ""
                           THEN semverNewConstraint(item.VersionConstraint)
                           ELSE [err |-> "", c |-> NoConstraint]
                   IN IF constraint.err # ""
                      THEN [err |-> "invalid constraint for module", val |-> <<>>]
                      ELSE parseModuleMatchersFrom(ms, i + 1,
                              Append(ret, [Name |-> name.re, Version |-> constraint.c]))

parseModuleMatchers(ms) == parseModuleMatchersFrom(ms, 1, <<>>)

\* parseLicenses()
RECURSIVE parseLicensesFrom(_, _, _)
parseLicensesFrom(ls, i, ret) ==
    IF i > Len(ls) THEN [err |-> "", val |-> ret]
    ELSE LET item == ls[i] IN
         IF item.SPDXID # ""
         THEN LET lic == LicenseByID(item.SPDXID) IN
              IF ~lic.ok THEN [err |-> "license not found in SPDX", val |-> <<>>]
              ELSE parseLicensesFrom(ls, i + 1,
                      Append(ret, [Name |-> lic.Name, SPDXID |-> item.SPDXID]))
         ELSE parseLicensesFrom(ls, i + 1,
                      Append(ret, [Name |-> item.Name, SPDXID |-> ""]))

parseLicensesNameOnly(ls) ==
    LET r == parseLicensesFrom(ls, 1, <<>>) IN
    [r EXCEPT !.val = [i \in 1..Len(r.val) |-> [r.val[i] EXCEPT !.SPDXID = ""]]]

parseLicenses(ls) == parseLicensesFrom(ls, 1, <<>>)

unknownLicenseActionWarnAsAllow(a) ==
    CASE a = UnknownLicenseAllow -> [err |-> "", action |-> "allow"]
      [] a = UnknownLicenseWarn  -> [err |-> "", action |-> "allow"]
      [] a = UnknownLicenseDeny  -> [err |-> "", action |-> "deny"]
      [] OTHER -> [err |-> "unexpected unknown license action", action |-> ""]

\* validator() lines 199-212: the switch on cfg.Validation.UnknownLicenseAction.
unknownLicenseAction(a) ==
    CASE a = UnknownLicenseAllow -> [err |-> "", action |-> "allow"]
      [] a = UnknownLicenseWarn  ->
            [err |-> "warning about unknown license currently not supported", action |-> ""]
      [] a = UnknownLicenseDeny  -> [err |-> "", action |-> "deny"]
      [] OTHER -> [err |-> "unexpected unknown license action", action |-> ""]

EmptyRuleSet ==
    [WhitelistedModules |-> <<>>, BlacklistedModules |-> <<>>,
     AllowedLicenses |-> <<>>, DeniedLicenses |-> <<>>]

NoValidator == [err |-> "", action |-> "", ruleSet |-> EmptyRuleSet]

validatorListsSwapped(c) ==
    LET a  == unknownLicenseAction(c.Validation.UnknownLicenseAction)
        rs == c.Validation.RuleSet
        wl == parseModuleMatchers(rs.BlacklistedModules)
        bl == parseModuleMatchers(rs.WhitelistedModules)
        al == parseLicenses(rs.DeniedLicenses)
        dl == parseLicenses(rs.AllowedLicenses)
    IN  IF a.err # "" \/ wl.err # "" \/ bl.err # "" \/ al.err # "" \/ dl.err # ""
        THEN [NoValidator EXCEPT !.err = "validator init failed"]
        ELSE [err |-> "", action |-> a.action,
              ruleSet |-> [WhitelistedModules |-> wl.val, BlacklistedModules |-> bl.val,
                           AllowedLicenses |-> al.val, DeniedLicenses |-> dl.val]]

\* validator(): the unknown-license action, then the four rule lists.
validator(c) ==
    LET a  == unknownLicenseAction(c.Validation.UnknownLicenseAction)
        rs == c.Validation.RuleSet
        wl == parseModuleMatchers(rs.WhitelistedModules)
        bl == parseModuleMatchers(rs.BlacklistedModules)
        al == parseLicenses(rs.AllowedLicenses)
        dl == parseLicenses(rs.DeniedLicenses)
    IN  IF a.err # "" THEN [NoValidator EXCEPT !.err = a.err]
        ELSE IF wl.err # "" THEN [NoValidator EXCEPT !.err = "whitelisted modules parse failed"]
        ELSE IF bl.err # "" THEN [NoValidator EXCEPT !.err = "blacklisted modules parse failed"]
        ELSE IF al.err # "" THEN [NoValidator EXCEPT !.err = "allowed licenses parse failed"]
        ELSE IF dl.err # "" THEN [NoValidator EXCEPT !.err = "denied licenses parse failed"]
        ELSE [err |-> "", action |-> a.action,
              ruleSet |-> [WhitelistedModules |-> wl.val, BlacklistedModules |-> bl.val,
                           AllowedLicenses |-> al.val, DeniedLicenses |-> dl.val]]

----------------------------------------------------------------------------
(* NewApp: the App it returns, or the error.                               *)

NoApp ==
    [state |-> "init", err |-> "", overrides |-> <<>>, memory |-> FALSE,
     resolvers |-> <<>>, action |-> "", ruleSet |-> EmptyRuleSet, sources |-> <<>>]

\* NewApp(): translator, cache over the resolver chain, validator, goproxy
\* addresses, then the server.  goproxyClient runs as an argument of setupCache
\* and leaves the defaulted base URL in the Config the later steps read.
NewAppResult(c) ==
    LET t  == translator(c)
        c2 == [c EXCEPT !.GoProxy.BaseURL = goproxyBaseURL(c)]
        ca == setupCache(c2)
        v  == validator(c2)
        a  == goproxyAddrs(c2)
        failed(e) == [NoApp EXCEPT !.state = "error", !.err = e]
    IN  IF t.err # "" THEN [cfg |-> c, app |-> failed("translator init failed")]
        ELSE IF ca.err # "" THEN [cfg |-> c2, app |-> failed("setup cache failed")]
        ELSE IF v.err # "" THEN [cfg |-> c2, app |-> failed("validator init failed")]
        ELSE IF a.err # "" THEN [cfg |-> c2, app |-> failed("get goproxy addrs failed")]
        ELSE [cfg |-> c2,
              app |-> [state |-> "running", err |-> "", overrides |-> t.overrides,
                       memory |-> ca.memory, resolvers |-> LicenseResolvers(c2),
                       action |-> v.action, ruleSet |-> v.ruleSet,
                       sources |-> a.addrs]]

----------------------------------------------------------------------------
(* observ.Middleware                                                       *)

\* net.SplitHostPort of a socket peer address.
SplitHostPort(a) ==
    CASE a = "10.0.0.5:41000"    -> "10.0.0.5"
      [] a = "192.0.2.7:52000"   -> "192.0.2.7"
      [] a = "142.250.1.141:443" -> "142.250.1.141"
      [] OTHER                   -> ""

ReadUserIPPeerOnly(xRealIp, xForwardedFor, addr) == SplitHostPort(addr)

\* ReadUserIP(): X-Real-Ip, else X-Forwarded-For, else the peer's host.
ReadUserIP(xRealIp, xForwardedFor, addr) ==
    LET a == xRealIp
        b == IF a = "" THEN xForwardedFor ELSE a
    IN  IF b = "" THEN SplitHostPort(addr) ELSE b

----------------------------------------------------------------------------
(* The packages behind the wiring.                                         *)

\* override.Translator: each override, in order, rewrites a path it matches.
RECURSIVE overrideTranslate(_, _, _)
overrideTranslate(overrides, i, p) ==
    IF i > Len(overrides) THEN p
    ELSE overrideTranslate(overrides, i + 1,
            ReplaceAllString(overrides[i].Match, p, overrides[i].Replace))

\* golang.Translator and gopkg.Translator leave the paths of this model as they are.
golangTranslate(p) == p
gopkgTranslate(p) == p

\* validation.ChainedTranslator: overrides, golang, gopkg, each on the
\* previous one's output.
ChainedTranslate(overrides, p) ==
    gopkgTranslate(golangTranslate(overrideTranslate(overrides, 1, p)))

NoLicense == [Name |-> "", SPDXID |-> ""]
NoAnswer == [err |-> "none", license |-> NoLicense, confidence |-> 0]
ResolutionFailed == [err |-> "ResolutionFailed", license |-> NoLicense, confidence |-> 0]
Answer(l, c) == [err |-> "", license |-> l, confidence |-> c]
TransportError == [err |-> "transport error", license |-> NoLicense, confidence |-> 0]

\* ChainedLicenseResolver: one resolver has answered with `o`; what the chain
\* keeps as its best answer.
KeepBest(b, o) ==
    IF o.err = "" /\ (b.err # "" \/ o.confidence > b.confidence) THEN o ELSE b

\* ModuleMatcher.Match
ModuleMatch(mm, path, version) ==
    /\ MatchString(mm.Name, path)
    /\ \/ mm.Version = NoConstraint
       \/ ConstraintCheck(mm.Version, version)

\* License equality: by identifier, or by name when neither has one.
LicenseEqual(a, b) ==
    IF a.SPDXID # "" \/ b.SPDXID # "" THEN a.SPDXID = b.SPDXID ELSE a.Name = b.Name

\* RuleSetValidator: blacklist, whitelist, denied licenses, allowed licenses.
RuleSetValidate(rs, path, version, lic) ==
    IF \E i \in 1..Len(rs.BlacklistedModules) : ModuleMatch(rs.BlacklistedModules[i], path, version)
    THEN "module blacklisted"
    ELSE IF \E i \in 1..Len(rs.WhitelistedModules) : ModuleMatch(rs.WhitelistedModules[i], path, version)
    THEN "module whitelisted"
    ELSE IF \E i \in 1..Len(rs.DeniedLicenses) : LicenseEqual(rs.DeniedLicenses[i], lic)
    THEN "license denied"
    ELSE IF \E i \in 1..Len(rs.AllowedLicenses) : LicenseEqual(rs.AllowedLicenses[i], lic)
    THEN "license allowed"
    ELSE "unknown"

NotifyingValidateFailOpen(action, rs, path, version, res) ==
    IF res.err # "" THEN [allow |-> action = "allow", reason |-> ""]
    ELSE [allow |-> TRUE, reason |-> "module whitelisted"]

\* NotifyingValidator over RuleSetValidator: a failed resolution denies; an
\* unknown outcome is settled by the unknown-license action.
NotifyingValidate(action, rs, path, version, res) ==
    IF res.err # "" THEN [allow |-> FALSE, reason |-> "license resolution failed"]
    ELSE LET v == RuleSetValidate(rs, path, version, res.license) IN
         CASE v = "module blacklisted" -> [allow |-> FALSE, reason |-> v]
           [] v = "module whitelisted" -> [allow |-> TRUE,  reason |-> v]
           [] v = "license denied"     -> [allow |-> FALSE, reason |-> v]
           [] v = "license allowed"    -> [allow |-> TRUE,  reason |-> v]
           [] OTHER -> IF action = "allow"
                       THEN [allow |-> TRUE,  reason |-> "unknown license allowed by policy"]
                       ELSE [allow |-> FALSE, reason |-> "unknown license denied by policy"]

\* The admission protocol's rendering of a decision.
Render(d) == IF d.allow THEN [code |-> 200, msg |-> ""] ELSE [code |-> 403, msg |-> d.reason]

\* The module the validator hands to its license resolver, which is the cache
\* (NewApp line 63): the translated path with the version.
ResolverModule(r) == <<tpath[r], req[r].version>>

KeySpace == Paths \X Versions

----------------------------------------------------------------------------
(* Actions                                                                 *)

\* NewApp(cfg)
NewApp ==
    /\ app.state = "init"
    /\ app' = NewAppResult(cfg).app
    /\ cfg' = NewAppResult(cfg).cfg
    /\ UNCHANGED <<env, req, pc, remoteAddr, tpath, memo, invoked, best, resolved, resp>>

\* The server accepts request r from its socket peer.
Serve(r) ==
    /\ app.state = "running"
    /\ pc[r] = "idle"
    /\ remoteAddr' = [remoteAddr EXCEPT ![r] = req[r].peer]
    /\ pc' = [pc EXCEPT ![r] = "middleware"]
    /\ UNCHANGED <<cfg, env, req, app, tpath, memo, invoked, best, resolved, resp>>

\* observ.Middleware: r.RemoteAddr = ReadUserIP(r), then the mux.
Middleware(r) ==
    /\ pc[r] = "middleware"
    /\ remoteAddr' = [remoteAddr EXCEPT
                        ![r] = ReadUserIP(req[r].xRealIp, req[r].xForwardedFor, remoteAddr[r])]
    /\ pc' = [pc EXCEPT ![r] = "handler"]
    /\ UNCHANGED <<cfg, env, req, app, tpath, memo, invoked, best, resolved, resp>>

\* athens.AdmissionHandler(validator, goproxyAddrs...): NewApp logs the
\* addresses as "forbidden admission request sources"; a request from one of
\* them is answered 403, any other goes to the validator.
AdmissionHandler(r) ==
    /\ pc[r] = "handler"
    /\ IF remoteAddr[r] \in Range(app.sources)
       THEN /\ resp' = [resp EXCEPT ![r] = [code |-> 403, msg |-> "forbidden source"]]
            /\ pc' = [pc EXCEPT ![r] = "done"]
       ELSE /\ pc' = [pc EXCEPT ![r] = "translate"]
            /\ resp' = resp
    /\ UNCHANGED <<cfg, env, req, app, remoteAddr, tpath, memo, invoked, best, resolved>>

\* RuleSetValidator: translate the module path.
Translate(r) ==
    /\ pc[r] = "translate"
    /\ tpath' = [tpath EXCEPT ![r] = ChainedTranslate(app.overrides, req[r].path)]
    /\ pc' = [pc EXCEPT ![r] = "resolve"]
    /\ UNCHANGED <<cfg, env, req, app, remoteAddr, memo, invoked, best, resolved, resp>>

\* The cacher's ResolveLicense: cache.Direct calls the chain; cache.MemoryCache
\* answers from its entry, waits while the key is being resolved, or starts
\* the one resolution of the key.
ResolveLicense(r) ==
    /\ pc[r] = "resolve"
    /\ LET k == ResolverModule(r) IN
       IF ~app.memory
       THEN /\ pc' = [pc EXCEPT ![r] = "chain"]
            /\ UNCHANGED <<memo, resolved>>
       ELSE /\ memo[k].state # "inflight"
            /\ IF memo[k].state = "done"
               THEN /\ resolved' = [resolved EXCEPT ![r] = memo[k].res]
                    /\ pc' = [pc EXCEPT ![r] = "validate"]
                    /\ memo' = memo
               ELSE /\ memo' = [memo EXCEPT ![k] = [state |-> "inflight", res |-> NoAnswer]]
                    /\ pc' = [pc EXCEPT ![r] = "chain"]
                    /\ resolved' = resolved
    /\ UNCHANGED <<cfg, env, req, app, remoteAddr, tpath, invoked, best, resp>>

\* ChainedLicenseResolver: call the next resolver; return its answer when it
\* meets the resolver's threshold, else keep the best and go on; after the
\* last one return the best answer, or fail when there is none.  The cacher
\* stores what the chain returned.
ResolverCall(r) ==
    /\ pc[r] = "chain"
    /\ LET i == Len(invoked[r]) + 1
           k == ResolverModule(r)
           res == app.resolvers[i]
       IN \E o \in env[res.name] :
            LET b == KeepBest(best[r], o)
                ret == IF o.err = "" /\ o.confidence >= res.threshold THEN o
                       ELSE IF i < Len(app.resolvers) THEN NoAnswer
                       ELSE IF b.err = "" THEN b ELSE ResolutionFailed
            IN /\ invoked' = [invoked EXCEPT ![r] =
                                Append(@, [resolver |-> res.name, module |-> k, outcome |-> o])]
               /\ best' = [best EXCEPT ![r] = b]
               /\ IF ret = NoAnswer
                  THEN UNCHANGED <<pc, resolved, memo>>
                  ELSE /\ resolved' = [resolved EXCEPT ![r] = ret]
                       /\ pc' = [pc EXCEPT ![r] = "validate"]
                       /\ memo' = IF app.memory
                                  THEN [memo EXCEPT ![k] = [state |-> "done", res |-> ret]]
                                  ELSE memo
    /\ UNCHANGED <<cfg, env, req, app, remoteAddr, tpath, resp>>

\* The validator's decision on the module as received and the resolved
\* license, rendered by the admission handler.
Validate(r) ==
    /\ pc[r] = "validate"
    /\ resp' = [resp EXCEPT ![r] =
                  Render(NotifyingValidate(app.action, app.ruleSet, req[r].path,
                                           req[r].version, resolved[r]))]
    /\ pc' = [pc EXCEPT ![r] = "done"]
    /\ UNCHANGED <<cfg, env, req, app, remoteAddr, tpath, memo, invoked, best, resolved>>

Next ==
    \/ NewApp
    \/ \E r \in Reqs : Serve(r)
    \/ \E r \in Reqs : Middleware(r)
    \/ \E r \in Reqs : AdmissionHandler(r)
    \/ \E r \in Reqs : Translate(r)
    \/ \E r \in Reqs : ResolveLicense(r)
    \/ \E r \in Reqs : ResolverCall(r)
    \/ \E r \in Reqs : Validate(r)

----------------------------------------------------------------------------
(* Initial states: a configuration, the upstream sources' possible answers *)
(* and the requests that will arrive.                                      *)

Request(peer, xRealIp, xForwardedFor, path, version) ==
    [peer |-> peer, xRealIp |-> xRealIp, xForwardedFor |-> xForwardedFor,
     path |-> path, version |-> version]

LicMIT == [Name |-> "MIT License", SPDXID |-> "MIT"]
LicAGPL == [Name |-> "GNU Affero General Public License v3.0", SPDXID |-> "AGPL-3.0"]
LicCustom == [Name |-> "Custom-1.0", SPDXID |-> ""]

InitWith(configs, envs, workloads) ==
    /\ cfg \in configs
    /\ env \in envs
    /\ req \in workloads
    /\ app = NoApp
    /\ pc = [r \in Reqs |-> "idle"]
    /\ remoteAddr = [r \in Reqs |-> ""]
    /\ tpath = [r \in Reqs |-> ""]
    /\ memo = [k \in KeySpace |-> [state |-> "absent", res |-> NoAnswer]]
    /\ invoked = [r \in Reqs |-> <<>>]
    /\ best = [r \in Reqs |-> NoAnswer]
    /\ resolved = [r \in Reqs |-> NoAnswer]
    /\ resp = [r \in Reqs |-> [code |-> 0, msg |-> ""]]

\* The test configuration, sources that answer above or below the threshold or
\* fail, and any requests from an Athens host.
TestdataEnv ==
    [n \in {"github", "goproxy"} |->
        {TransportError, Answer(LicMIT, 9), Answer(LicAGPL, 5)}]

Init ==
    InitWith({TestdataConfig}, {TestdataEnv},
             [Reqs -> {Request("192.0.2.7:52000", "", "", p, v) :
                          p \in {"rsc.io/pdf", "go.uber.org/zap", "github.com/uber-go/zap"},
                          v \in {"v0.9.0", "v1.0.0"}}])

Spec == Init /\ [][Next]_vars

----------------------------------------------------------------------------
(* Start-up: configurations with every kind of error NewApp can meet.      *)

StartupMatchers ==
    {TestdataWhitelist, TestdataBlacklist,
     <<MM("", "")>>, <<MM("(", "")>>, <<MM("rsc.io/pdf", "latest")>>,
     <<MM("rsc.io/pdf", "<1.0.0"), MM("[a-", "")>>}

StartupConfigs ==
    {MkConfig(cache, url, ov, TestdataThreshold, action, wl, bl, al, dl) :
        cache \in {CacheNil, CacheTypeMemory, "redis"},
        url \in {"", "https://proxy.golang.org", "https://nohost.invalid"},
        ov \in {TestdataOverrides, <<[Match |-> "(", Replace |-> "x"]>>},
        action \in {UnknownLicenseAllow, UnknownLicenseWarn, UnknownLicenseDeny, "block"},
        wl \in StartupMatchers, bl \in StartupMatchers,
        al \in {<<>>, <<Lic("", "MIT")>>, <<Lic("Custom-1.0", "")>>, <<Lic("", "NOPE-1.0")>>},
        dl \in {TestdataDenied, <<Lic("", "AGPL-3.0"), Lic("", "NOPE-1.0")>>}}

StartupWorkloads ==
    {[r \in Reqs |-> Request("192.0.2.7:52000", "", "", "rsc.io/pdf", "v1.0.0")]}

InitStartup == InitWith(StartupConfigs, {TestdataEnv}, StartupWorkloads)

SpecStartup == InitStartup /\ [][Next]_vars

\* What the claim lists, read off the configuration as written.
BadMatcher(m) ==
    \/ m.Name = ""
    \/ m.Name \in InvalidRegexps
    \/ m.VersionConstraint \notin {"", "<1.0.0", ">=1.0.0"}

BadLicense(l) == l.SPDXID # "" /\ l.SPDXID \notin {"MIT", "AGPL-3.0", "Apache-2.0"}

ConfigRejected(c) ==
    \/ c.Validation.UnknownLicenseAction \notin {"allow", "deny"}
    \/ \E o \in Range(c.PathOverrides) : o.Match \in InvalidRegexps
    \/ \E m \in Range(c.Validation.RuleSet.WhitelistedModules) : BadMatcher(m)
    \/ \E m \in Range(c.Validation.RuleSet.BlacklistedModules) : BadMatcher(m)
    \/ \E l \in Range(c.Validation.RuleSet.AllowedLicenses) : BadLicense(l)
    \/ \E l \in Range(c.Validation.RuleSet.DeniedLicenses) : BadLicense(l)
    \/ c.Cache \notin {CacheNil, "memory"}

\* C8: with a configuration error (unknown-license action warn or unrecognised,
\* an invalid override or matcher regex, a matcher with an empty name or an
\* invalid version constraint, an SPDX identifier that is not found, an
\* unsupported cache type) NewApp returns an error and no App, so no request is
\* ever accepted, translated, resolved or answered.
Thm_C8 ==
    ConfigRejected(cfg) =>
        /\ app.state \in {"init", "error"}
        /\ app.state = "error" => app.err # ""
        /\ \A r \in Reqs : pc[r] = "idle" /\ resp[r].code = 0 /\ invoked[r] = <<>>

\* C8's case: NewApp has run on a configuration whose only error is the warn action.
Wit_C8 ==
    /\ app.state = "error"
    /\ cfg.Validation.UnknownLicenseAction = "warn"
    /\ cfg.Cache = "memory"
    /\ cfg.Validation.RuleSet.WhitelistedModules = TestdataWhitelist
    /\ cfg.Validation.RuleSet.BlacklistedModules = TestdataBlacklist
    /\ cfg.Validation.RuleSet.AllowedLicenses = <<>>
    /\ cfg.Validation.RuleSet.DeniedLicenses = TestdataDenied
    /\ cfg.PathOverrides = TestdataOverrides

----------------------------------------------------------------------------
(* Rule sets: every combination of these lists, for each module and each   *)
(* license the sources may report.                                         *)

RulesConfigs ==
    {MkConfig(CacheTypeMemory, "https://proxy.golang.org", TestdataOverrides,
              TestdataThreshold, action, wl, bl, al, dl) :
        action \in {UnknownLicenseAllow, UnknownLicenseDeny},
        wl \in {<<>>, TestdataWhitelist, <<MM(".*", "")>>},
        bl \in {<<>>, TestdataBlacklist, <<MM("^github.com/", "")>>},
        al \in {<<>>, <<Lic("", "MIT")>>, <<Lic("Custom-1.0", "")>>},
        dl \in {<<>>, TestdataDenied, <<Lic("", "AGPL-3.0"), Lic("", "MIT")>>}}

RulesEnv ==
    [n \in {"github", "goproxy"} |->
        IF n = "github"
        THEN {TransportError, Answer(LicMIT, 9), Answer(LicAGPL, 9)}
        ELSE {TransportError, Answer(LicCustom, 9)}]

RulesWorkloads ==
    {[r \in Reqs |-> Request("192.0.2.7:52000", "", "", p, v)] :
        p \in {"rsc.io/pdf", "github.com/user/repo", "example.com/pkg"},
        v \in {"v0.9.0", "v1.0.0"}}

InitRules == InitWith(RulesConfigs, {RulesEnv}, RulesWorkloads)

SpecRules == InitRules /\ [][Next]_vars

\* A configured matcher applies to a module: the name pattern matches and the
\* version constraint, if set, is satisfied.
MatcherApplies(m, q) ==
    /\ q.path \in Language(m.Name)
    /\ CASE m.VersionConstraint = ""        -> TRUE
         [] m.VersionConstraint = "<1.0.0"  -> q.version \in {"v0.9.0"}
         [] m.VersionConstraint = ">=1.0.0" -> q.version \in {"v1.0.0", "v1.2.0"}
         [] OTHER                           -> FALSE

Blacklisted(q) == \E m \in Range(cfg.Validation.RuleSet.BlacklistedModules) : MatcherApplies(m, q)
Whitelisted(q) == \E m \in Range(cfg.Validation.RuleSet.WhitelistedModules) : MatcherApplies(m, q)

\* A configured license entry names the resolved license: by identifier when
\* the entry has one, by name otherwise.
LicenseListed(ls, lic) ==
    \E l \in Range(ls) :
        IF l.SPDXID # "" THEN l.SPDXID = lic.SPDXID
        ELSE lic.SPDXID = "" /\ l.Name = lic.Name

LicenseDenied(lic) == LicenseListed(cfg.Validation.RuleSet.DeniedLicenses, lic)
LicenseAllowed(lic) == LicenseListed(cfg.Validation.RuleSet.AllowedLicenses, lic)

\* C1: a request whose module matches a blacklisted matcher is denied, whatever
\* license was resolved and even when a whitelisted matcher matches it too.
Thm_C1 ==
    \A r \in Reqs :
        pc[r] = "done" /\ Blacklisted(req[r]) => resp[r].code = 403 /\ resp[r].msg # ""

\* C1's case: black- and whitelisted at once, with an allowed license resolved.
Wit_C1 ==
    \E r \in Reqs :
        /\ pc[r] = "done" /\ Blacklisted(req[r]) /\ Whitelisted(req[r])
        /\ resolved[r].err = "" /\ LicenseAllowed(resolved[r].license)
        /\ resp[r] = [code |-> 403, msg |-> "module blacklisted"]

FirstRule(q, lic) ==
    IF Blacklisted(q) THEN [code |-> 403, msg |-> "module blacklisted"]
    ELSE IF Whitelisted(q) THEN [code |-> 200, msg |-> ""]
    ELSE IF LicenseDenied(lic) THEN [code |-> 403, msg |-> "license denied"]
    ELSE IF LicenseAllowed(lic) THEN [code |-> 200, msg |-> ""]
    ELSE IF cfg.Validation.UnknownLicenseAction = "allow" THEN [code |-> 200, msg |-> ""]
    ELSE [code |-> 403, msg |-> "unknown license denied by policy"]

\* C2: for a module with a resolved license the decision is that of the first
\* applicable rule in the order blacklisted module, whitelisted module, denied
\* license, allowed license, and otherwise the unknown-license action.
Thm_C2 ==
    \A r \in Reqs :
        pc[r] = "done" /\ resolved[r].err = "" =>
            resp[r] = FirstRule(req[r], resolved[r].license)

\* C2's case: a license both denied and allowed, on a module no matcher names.
Wit_C2 ==
    \E r \in Reqs :
        /\ pc[r] = "done" /\ resolved[r].err = ""
        /\ ~Blacklisted(req[r]) /\ ~Whitelisted(req[r])
        /\ LicenseDenied(resolved[r].license) /\ LicenseAllowed(resolved[r].license)
        /\ resp[r] = [code |-> 403, msg |-> "license denied"]

\* C7: when resolution fails the request is denied with a reason, also under
\* the unknown-license action allow, and not as an unknown license.
Thm_C7 ==
    \A r \in Reqs :
        pc[r] = "done" /\ resolved[r] = ResolutionFailed =>
            /\ resp[r].code = 403
            /\ resp[r].msg \notin {"", "unknown license allowed by policy",
                                   "unknown license denied by policy"}

\* C7's case: every source failed, the action is allow and the module is whitelisted.
Wit_C7 ==
    \E r \in Reqs :
        /\ pc[r] = "done" /\ resolved[r] = ResolutionFailed
        /\ \A i \in 1..Len(invoked[r]) : invoked[r][i].outcome = TransportError
        /\ Len(invoked[r]) = 2
        /\ cfg.Validation.UnknownLicenseAction = "allow"
        /\ resp[r].code = 403

----------------------------------------------------------------------------
(* The resolver chain: every threshold against every pair of outcomes,     *)
(* with and without the cache.                                             *)

ChainConfigs ==
    {MkConfig(cache, "https://proxy.golang.org", TestdataOverrides, threshold,
              UnknownLicenseAllow, TestdataWhitelist, TestdataBlacklist, <<>>,
              TestdataDenied) :
        cache \in {CacheNil, CacheTypeMemory}, threshold \in {0, 5, TestdataThreshold}}

ChainEnv ==
    [n \in {"github", "goproxy"} |->
        {TransportError} \cup
        {Answer(IF n = "github" THEN LicMIT ELSE LicAGPL, c) : c \in {0, 5, 9}}]

ChainWorkloads ==
    {[r \in Reqs |-> Request("192.0.2.7:52000", "", "", "example.com/pkg", "v1.0.0")]}

InitChain == InitWith(ChainConfigs, {ChainEnv}, ChainWorkloads)

SpecChain == InitChain /\ [][Next]_vars

\* The resolvers as NewApp configures them: the source-hosting client first,
\* the module-proxy client second, each with the configured threshold.
ConfiguredOrder == <<"github", "goproxy">>

MetThreshold(o) == o.err = "" /\ o.confidence >= cfg.Validation.ConfidenceThreshold

Outcomes(r) == {invoked[r][i].outcome : i \in 1..Len(invoked[r])}

Returned(r) == pc[r] \in {"validate", "done"} /\ invoked[r] # <<>>

\* C3: a resolution invokes the resolvers in the configured order, the github
\* client first and the goproxy client second, and once one answers with a
\* confidence at or above its threshold the chain returns that answer and
\* invokes no later resolver.
Thm_C3 ==
    \A r \in Reqs :
        /\ Len(invoked[r]) <= Len(ConfiguredOrder)
        /\ \A i \in 1..Len(invoked[r]) :
              /\ invoked[r][i].resolver = ConfiguredOrder[i]
              /\ MetThreshold(invoked[r][i].outcome) =>
                    /\ i = Len(invoked[r])
                    /\ pc[r] \in {"validate", "done"}
                    /\ resolved[r] = invoked[r][i].outcome

\* C3's case: the github client answered at the threshold and the chain
\* returned without the goproxy client.
Wit_C3 ==
    \E r \in Reqs :
        /\ pc[r] = "done"
        /\ Len(invoked[r]) = 1
        /\ invoked[r][1].resolver = "github"
        /\ invoked[r][1].outcome = Answer(LicMIT, 5)
        /\ cfg.Validation.ConfidenceThreshold = 5
        /\ resolved[r] = Answer(LicMIT, 5)

\* C4: when no resolver met its threshold every resolver was tried, errors
\* included, and the chain returns the answer of highest confidence among
\* those produced; it fails only when none produced an answer.
Thm_C4 ==
    \A r \in Reqs :
        Returned(r) /\ (\A o \in Outcomes(r) : ~MetThreshold(o)) =>
            /\ Len(invoked[r]) = Len(ConfiguredOrder)
            /\ IF \E o \in Outcomes(r) : o.err = ""
               THEN /\ resolved[r] \in Outcomes(r)
                    /\ resolved[r].err = ""
                    /\ \A o \in Outcomes(r) : o.err = "" => resolved[r].confidence >= o.confidence
               ELSE resolved[r] = ResolutionFailed

\* C4's case: the github client failed, the goproxy client answered below the
\* threshold, and that answer is what the chain returned.
Wit_C4 ==
    \E r \in Reqs :
        /\ pc[r] = "done"
        /\ Len(invoked[r]) = 2
        /\ invoked[r][1].outcome = TransportError
        /\ invoked[r][2].outcome = Answer(LicAGPL, 5)
        /\ cfg.Validation.ConfidenceThreshold = TestdataThreshold
        /\ resolved[r] = Answer(LicAGPL, 5)

----------------------------------------------------------------------------
(* Origins: requests from the proxy's host and from elsewhere, with and    *)
(* without the forwarding headers.                                         *)

OriginConfigs ==
    {MkConfig(CacheTypeMemory, url, TestdataOverrides, TestdataThreshold,
              UnknownLicenseAllow, TestdataWhitelist, TestdataBlacklist, <<>>,
              TestdataDenied) :
        url \in {"", "http://athens:3000"}}

OriginEnv == [n \in {"github", "goproxy"} |-> {TransportError, Answer(LicMIT, 9)}]

OriginWorkloads ==
    [Reqs -> {Request(peer, x, f, "example.com/pkg", "v1.0.0") :
                peer \in {"10.0.0.5:41000", "192.0.2.7:52000"},
                x \in {"", "athens:3000", "192.0.2.7"},
                f \in {"", "10.0.0.5"}}]

InitOrigin == InitWith(OriginConfigs, {OriginEnv}, OriginWorkloads)

SpecOrigin == InitOrigin /\ [][Next]_vars

\* The address set of the claim: the proxy URL's resolved IP addresses, its
\* hostname and its host:port (the URL defaults to proxy.golang.org).
ProxyAddressSet ==
    IF cfg.GoProxy.BaseURL = "http://athens:3000"
    THEN {"10.0.0.5", "athens", "athens:3000"}
    ELSE {"142.250.1.141", "2607:f8b0::2011", "proxy.golang.org"}

Handled(r) == pc[r] \in {"translate", "resolve", "chain", "validate", "done"}

Untouched(r) == tpath[r] = "" /\ invoked[r] = <<>> /\ resolved[r] = NoAnswer

Thm_C10 ==
    \A r \in Reqs :
        Handled(r) =>
            /\ remoteAddr[r] =
                  IF req[r].xRealIp # "" THEN req[r].xRealIp
                  ELSE IF req[r].xForwardedFor # "" THEN req[r].xForwardedFor
                  ELSE SplitHostPort(req[r].peer)
            /\ (pc[r] = "done" /\ resp[r].msg = "forbidden source")
                  <=> remoteAddr[r] \in Range(app.sources)

\* C10's case: two requests from one socket peer that differ only in the
\* headers, one refused at the origin check and the other validated.
Wit_C10 ==
    \E r1, r2 \in Reqs :
        /\ pc[r1] = "done" /\ pc[r2] = "done"
        /\ req[r1].peer = req[r2].peer
        /\ req[r1].path = req[r2].path /\ req[r1].version = req[r2].version
        /\ req[r1].xRealIp = "" /\ req[r1].xForwardedFor = "10.0.0.5"
        /\ req[r2].xRealIp = "192.0.2.7" /\ req[r2].xForwardedFor = "10.0.0.5"
        /\ resp[r1] = [code |-> 403, msg |-> "forbidden source"]
        /\ resp[r2].code = 200

----------------------------------------------------------------------------
(* The cache (specification Spec: the test configuration).                 *)

RanChain(r) == invoked[r] # <<>>

HasResult(r) == pc[r] \in {"validate", "done"}

\* C5: with the memory cache the chain runs at most once per module identity:
\* while a key is being resolved no second resolution of it starts, and every
\* request for the key ends with the one (license, confidence) answer, the
\* later ones without an upstream call.
Thm_C5 ==
    cfg.Cache = CacheTypeMemory =>
        /\ \A r1, r2 \in Reqs :
              r1 # r2 /\ RanChain(r1) /\ RanChain(r2) =>
                 invoked[r1][1].module # invoked[r2][1].module
        /\ \A r1, r2 \in Reqs :
              /\ HasResult(r1) /\ HasResult(r2)
              /\ tpath[r1] = tpath[r2] /\ req[r1].version = req[r2].version
              => resolved[r1] = resolved[r2]

\* C5's case: two requests for one module are done, one resolved upstream and
\* the other was served the same answer with no upstream call.
Wit_C5 ==
    \E r1, r2 \in Reqs :
        /\ pc[r1] = "done" /\ pc[r2] = "done"
        /\ req[r1].path = req[r2].path /\ req[r1].version = req[r2].version
        /\ RanChain(r1) /\ ~RanChain(r2)
        /\ resolved[r1] = resolved[r2] /\ resolved[r1].err = ""

CanonicalPath(p) == IF p = "go.uber.org/zap" THEN "github.com/uber-go/zap" ELSE p

Resolving(r) == pc[r] \in {"chain", "validate", "done"}

\* C9 as stated: the cache is keyed by the module as received while the chain
\* is queried with the translated path.
Orig_C9 ==
    \A r \in Reqs :
        Resolving(r) =>
            /\ memo[<<req[r].path, req[r].version>>].state # "absent"
            /\ \A i \in 1..Len(invoked[r]) :
                  invoked[r][i].module[1] = CanonicalPath(req[r].path)

\* C9, amended: the cache is keyed by the identity the chain is queried with,
\* the translated path and the version; requests whose paths differ but
\* translate to one canonical path share one cache entry.
Thm_C9 ==
    /\ \A r \in Reqs :
          Resolving(r) =>
             /\ memo[<<CanonicalPath(req[r].path), req[r].version>>].state # "absent"
             /\ \A i \in 1..Len(invoked[r]) :
                   invoked[r][i].module = <<CanonicalPath(req[r].path), req[r].version>>
    /\ \A k \in KeySpace :
          memo[k].state # "absent" =>
             \E r \in Reqs : Resolving(r) /\ k = <<CanonicalPath(req[r].path), req[r].version>>

\* C9's case: two requests whose paths differ and translate to one path are
\* done with a single cache entry and a single resolution between them.
Wit_C9 ==
    \E r1, r2 \in Reqs :
        /\ pc[r1] = "done" /\ pc[r2] = "done"
        /\ req[r1].path = "go.uber.org/zap" /\ req[r2].path = "github.com/uber-go/zap"
        /\ req[r1].version = req[r2].version
        /\ Cardinality({k \in KeySpace : memo[k].state # "absent"}) = 1
        /\ RanChain(r1) /\ ~RanChain(r2)

====
